---- MODULE Spec2Model ----
(***************************************************************************)
(* Model of simpgraph.SimpGraph (src/simpgraph/simpgraph.py): an in-memory *)
(* simple graph made of a vertex set, a set of sorted edge tuples, an      *)
(* adjacency dictionary and two sparse label dictionaries.                 *)
(*                                                                         *)
(* Python values are modelled as follows.                                  *)
(*   - an argument is a record [t, v]: t = "int" with the integer v, or    *)
(*     t = "str" for a value that is not an int;                           *)
(*   - a set is a set, a dict is a function whose DOMAIN is its key set;   *)
(*   - a tuple (u,v) is the sequence <<u, v>>;                             *)
(*   - a label is a string, the Python None is the string "None", which   *)
(*     no label of the model equals;                                       *)
(*   - a call returns [g, exc]: the object after the call and the name of  *)
(*     the exception that left it ("None" when it returned normally);      *)
(*   - a string of a file is the sequence of its characters.               *)
(*                                                                         *)
(* The first five variables are the fields of the object.  source is the   *)
(* file the reader is given, as the sequence of its lines.  pc and frame   *)
(* are the position and the locals of a call that is run statement by      *)
(* statement, and other records what a second caller did meanwhile.        *)
(*                                                                         *)
(* Four specifications share the variables: Spec (atomic calls), SpecRead  *)
(* (a file is written and read), SpecCascade (discard_vertex and           *)
(* discard_edge statement by statement, one caller) and SpecInterleaved    *)
(* (the same with a second caller between the statements).                 *)
(***************************************************************************)
EXTENDS Integers, FiniteSets, Sequences, TLC

VARIABLES vertex_set, edge_set, adj_dict, vertex_label_dict, edge_label_dict,
          source, pc, frame, other

vars == <<vertex_set, edge_set, adj_dict, vertex_label_dict, edge_label_dict,
          source, pc, frame, other>>

(* Largest vertex identifier the callers pass. *)
MaxVertex == 3

None == "None"

NoExc == "None"

(* The label strings the callers pass. *)
Labels == {"A"}

LabelArgs == Labels \cup {None}

IntArg(k) == [t |-> "int", v |-> k]

StrArg == [t |-> "str", v |-> 0]

(* Arguments of the calls: 0 (not positive), the vertices, and a non-int. *)
Args == {IntArg(k) : k \in 0..MaxVertex} \cup {StrArg}

EmptyDict == [x \in {} |-> None]

(* d[k] = val *)
DictSet(d, k, val) == [x \in (DOMAIN d) \cup {k} |-> IF x = k THEN val ELSE d[x]]

(* d.pop(k, None) *)
DictPop(d, k) == [x \in (DOMAIN d) \ {k} |-> d[x]]

(* The enumerations of a set, one per iteration order of tuple(set). *)
Orders(S) == {f \in [1..Cardinality(S) -> S] : \A x \in S : \E i \in DOMAIN f : f[i] = x}

Return(g) == [g |-> g, exc |-> NoExc]

Raise(g, e) == [g |-> g, exc |-> e]

EmptyGraph ==
  [vertex_set |-> {}, edge_set |-> {}, adj_dict |-> EmptyDict,
   vertex_label_dict |-> EmptyDict, edge_label_dict |-> EmptyDict]

(* The object as a record of its five attributes. *)
G ==
  [vertex_set |-> vertex_set, edge_set |-> edge_set, adj_dict |-> adj_dict,
   vertex_label_dict |-> vertex_label_dict, edge_label_dict |-> edge_label_dict]

clear(g) == Return(EmptyGraph)

(* Variant: the label is stored even when the argument was omitted. *)
set_vertex_label_always(g, u, label) ==
  [g EXCEPT !.vertex_label_dict = DictSet(@, u, label)]

(* if label is not None: self._vertex_label_dict[u] = label *)
set_vertex_label(g, u, label) ==
  IF label # None
  THEN [g EXCEPT !.vertex_label_dict = DictSet(@, u, label)]
  ELSE g

(* Variant: adding a vertex again empties its adjacency set. *)
add_vertex_reset(g, u, label) ==
  IF u.t # "int" THEN Raise(g, "TypeError")
  ELSE IF u.v <= 0 THEN Raise(g, "ValueError")
  ELSE IF u.v \in g.vertex_set
       THEN Return(set_vertex_label([g EXCEPT !.adj_dict = DictSet(@, u.v, {})],
                                    u.v, label))
  ELSE IF u.v \in DOMAIN g.adj_dict THEN Raise(g, "AssertionError")
  ELSE Return(set_vertex_label(
         [g EXCEPT !.adj_dict = DictSet(@, u.v, {}),
                   !.vertex_set = @ \cup {u.v}], u.v, label))

add_vertex(g, u, label) ==
  IF u.t # "int" THEN Raise(g, "TypeError")
  ELSE IF u.v <= 0 THEN Raise(g, "ValueError")
  ELSE IF u.v \in g.vertex_set THEN Return(set_vertex_label(g, u.v, label))
  ELSE IF u.v \in DOMAIN g.adj_dict THEN Raise(g, "AssertionError")
  ELSE Return(set_vertex_label(
         [g EXCEPT !.adj_dict = DictSet(@, u.v, {}),
                   !.vertex_set = @ \cup {u.v}], u.v, label))

(* Variant: the pair is stored in the order of the arguments. *)
Canon_unsorted(u, v) == <<u, v>>

(* if u > v: u,v = v,u *)
Canon(u, v) == IF u > v THEN <<v, u>> ELSE <<u, v>>

(* Variant: the loop check is missing. *)
check_edge_args_no_loop(u, v) ==
  IF u.t # "int" \/ v.t # "int" THEN "TypeError"
  ELSE IF u.v <= 0 \/ v.v <= 0 THEN "ValueError"
  ELSE NoExc

(* The argument checks of add_edge, in the order the code makes them. *)
check_edge_args(u, v) ==
  IF u.t # "int" \/ v.t # "int" THEN "TypeError"
  ELSE IF u.v <= 0 \/ v.v <= 0 THEN "ValueError"
  ELSE IF u.v = v.v THEN "Exception"
  ELSE NoExc

(* Variant: the label is stored even when the argument was omitted. *)
set_edge_label_always(g, e, label) ==
  [g EXCEPT !.edge_label_dict = DictSet(@, e, label)]

(* if label is not None: self._edge_label_dict[(u,v)] = label *)
set_edge_label(g, e, label) ==
  IF label # None
  THEN [g EXCEPT !.edge_label_dict = DictSet(@, e, label)]
  ELSE g

(* self._adj_dict[u].add(v); self._adj_dict[v].add(u); a missing key raises *)
(* KeyError and keeps what was done before it.                              *)
adj_add(g, u, v) ==
  IF u \notin DOMAIN g.adj_dict THEN Raise(g, "KeyError")
  ELSE LET g1 == [g EXCEPT !.adj_dict[u] = @ \cup {v}] IN
       IF v \notin DOMAIN g1.adj_dict THEN Raise(g1, "KeyError")
       ELSE Return([g1 EXCEPT !.adj_dict[v] = @ \cup {u}])

add_edge(g, u, v, label) ==
  IF check_edge_args(u, v) # NoExc THEN Raise(g, check_edge_args(u, v))
  ELSE LET e == Canon(u.v, v.v) IN
    IF e \in g.edge_set THEN Return(set_edge_label(g, e, label))
    ELSE LET r1 == add_vertex(g, IntArg(e[1]), None) IN
      IF r1.exc # NoExc THEN r1
      ELSE LET r2 == add_vertex(r1.g, IntArg(e[2]), None) IN
        IF r2.exc # NoExc THEN r2
        ELSE LET r3 == adj_add(r2.g, e[1], e[2]) IN
          IF r3.exc # NoExc THEN r3
          ELSE Return(set_edge_label(
                 [r3.g EXCEPT !.edge_set = @ \cup {e}], e, label))

(* Variant: the label of a discarded edge is kept. *)
pop_edge_label_kept(g, e) == g

(* self._edge_label_dict.pop((u,v), None) *)
pop_edge_label(g, e) == [g EXCEPT !.edge_label_dict = DictPop(@, e)]

(* Variant: only the smaller endpoint forgets its neighbour. *)
adj_remove_one_side(g, u, v) ==
  IF u \notin DOMAIN g.adj_dict \/ v \notin g.adj_dict[u] THEN Raise(g, "KeyError")
  ELSE Return([g EXCEPT !.adj_dict[u] = @ \ {v}])

(* self._adj_dict[u].remove(v); self._adj_dict[v].remove(u); set.remove of  *)
(* a missing element and a missing key raise KeyError.                      *)
adj_remove(g, u, v) ==
  IF u \notin DOMAIN g.adj_dict \/ v \notin g.adj_dict[u] THEN Raise(g, "KeyError")
  ELSE LET g1 == [g EXCEPT !.adj_dict[u] = @ \ {v}] IN
       IF v \notin DOMAIN g1.adj_dict \/ u \notin g1.adj_dict[v]
       THEN Raise(g1, "KeyError")
       ELSE Return([g1 EXCEPT !.adj_dict[v] = @ \ {u}])

(* Variant: the arguments are not put in order before the lookup. *)
discard_edge_unsorted(g, u, v) ==
  IF (u.t = "str") # (v.t = "str") THEN Raise(g, "TypeError")
  ELSE IF u.t = "str" THEN Return(g)
  ELSE LET e == <<u.v, v.v>> IN
    IF e \notin g.edge_set THEN Return(g)
    ELSE adj_remove(pop_edge_label([g EXCEPT !.edge_set = @ \ {e}], e), e[1], e[2])

(* u > v raises TypeError between a str and an int; two equal strs compare  *)
(* and their tuple is in no edge set.                                       *)
discard_edge(g, u, v) ==
  IF (u.t = "str") # (v.t = "str") THEN Raise(g, "TypeError")
  ELSE IF u.t = "str" THEN Return(g)
  ELSE LET e == Canon(u.v, v.v) IN
    IF e \notin g.edge_set THEN Return(g)
    ELSE adj_remove(pop_edge_label([g EXCEPT !.edge_set = @ \ {e}], e), e[1], e[2])

(* Variant: the incident edges are not discarded. *)
cascade_skipped(g, u, neighbors) == Return(g)

(* for v in neighbors: self.discard_edge(u,v) *)
RECURSIVE cascade(_, _, _)
cascade(g, u, neighbors) ==
  IF neighbors = <<>> THEN Return(g)
  ELSE LET r == discard_edge(g, u, IntArg(Head(neighbors))) IN
       IF r.exc # NoExc THEN r ELSE cascade(r.g, u, Tail(neighbors))

(* Variant: the adjacency entry of a discarded vertex is kept. *)
remove_vertex_keeps_adj(g, u) ==
  Return([g EXCEPT !.vertex_set = @ \ {u},
                   !.vertex_label_dict = DictPop(@, u)])

(* The last three statements of discard_vertex. *)
remove_vertex(g, u) ==
  LET g1 == [g EXCEPT !.vertex_set = @ \ {u},
                      !.vertex_label_dict = DictPop(@, u)] IN
  IF u \notin DOMAIN g1.adj_dict THEN Raise(g1, "KeyError")
  ELSE Return([g1 EXCEPT !.adj_dict = DictPop(@, u)])

(* Variant: an absent vertex is not tolerated. *)
discard_vertex_strict(g, u, neighbors) ==
  IF u.v \notin DOMAIN g.adj_dict THEN Raise(g, "KeyError")
  ELSE LET r == cascade(g, u, neighbors) IN
       IF r.exc # NoExc THEN r ELSE remove_vertex(r.g, u.v)

(* Variant: neighbours left without an edge are removed with the vertex. *)
discard_vertex_prune(g, u, neighbors) ==
  IF u.t = "str" \/ u.v \notin g.vertex_set THEN Return(g)
  ELSE IF u.v \notin DOMAIN g.adj_dict THEN Raise(g, "KeyError")
  ELSE LET r == cascade(g, u, neighbors) IN
       IF r.exc # NoExc THEN r
       ELSE LET r1 == remove_vertex(r.g, u.v)
                lone == {w \in DOMAIN r1.g.adj_dict :
                           r1.g.adj_dict[w] = {} /\ w \in g.adj_dict[u.v]} IN
            IF r1.exc # NoExc THEN r1
            ELSE Return([r1.g EXCEPT
                   !.vertex_set = @ \ lone,
                   !.adj_dict = [w \in (DOMAIN @) \ lone |-> @[w]],
                   !.vertex_label_dict = [w \in (DOMAIN @) \ lone |-> @[w]]])

(* neighbors is tuple(self._adj_dict[u]) in the order the set iterates. *)
discard_vertex(g, u, neighbors) ==
  IF u.t = "str" \/ u.v \notin g.vertex_set THEN Return(g)
  ELSE IF u.v \notin DOMAIN g.adj_dict THEN Raise(g, "KeyError")
  ELSE LET r == cascade(g, u, neighbors) IN
       IF r.exc # NoExc THEN r ELSE remove_vertex(r.g, u.v)

(* The sets behind the tuples the queries return. *)
all_vertices(g) == g.vertex_set

all_edges(g) == g.edge_set

num_vertices(g) == Cardinality(g.vertex_set)

num_edges(g) == Cardinality(g.edge_set)

(* Variant: the number of vertices is taken for the largest one. *)
max_vertex_count(g) ==
  IF g.vertex_set = {} THEN [exc |-> "ValueError", val |-> 0]
  ELSE [exc |-> NoExc, val |-> Cardinality(g.vertex_set)]

(* max(self._vertex_set); max of an empty set raises ValueError. *)
max_vertex(g) ==
  IF g.vertex_set = {} THEN [exc |-> "ValueError", val |-> 0]
  ELSE [exc |-> NoExc,
        val |-> CHOOSE m \in g.vertex_set : \A x \in g.vertex_set : x <= m]

(* A query returns [exc, val]. *)
adj_vertices(g, u) ==
  IF u \notin g.vertex_set THEN [exc |-> "Exception", val |-> {}]
  ELSE IF u \notin DOMAIN g.adj_dict THEN [exc |-> "KeyError", val |-> {}]
  ELSE [exc |-> NoExc, val |-> g.adj_dict[u]]

(* Variant: the label of an unlabelled vertex is looked up. *)
vertex_label_strict(g, u) ==
  IF u \notin g.vertex_set THEN [exc |-> "Exception", val |-> None]
  ELSE IF u \in DOMAIN g.vertex_label_dict
       THEN [exc |-> NoExc, val |-> g.vertex_label_dict[u]]
       ELSE [exc |-> "KeyError", val |-> None]

vertex_label(g, u) ==
  IF u \notin g.vertex_set THEN [exc |-> "Exception", val |-> None]
  ELSE IF u \in DOMAIN g.vertex_label_dict
       THEN [exc |-> NoExc, val |-> g.vertex_label_dict[u]]
       ELSE [exc |-> NoExc, val |-> None]

edge_label(g, u, v) ==
  LET e == Canon(u, v) IN
  IF e \notin g.edge_set THEN [exc |-> "Exception", val |-> None]
  ELSE IF e \in DOMAIN g.edge_label_dict
       THEN [exc |-> NoExc, val |-> g.edge_label_dict[e]]
       ELSE [exc |-> NoExc, val |-> None]

(* tuple(S): the elements of a set, in the order the iteration yields. *)
RECURSIVE tuple(_)
tuple(S) ==
  IF S = {} THEN <<>>
  ELSE LET x == CHOOSE y \in S : TRUE IN <<x>> \o tuple(S \ {x})

(* set(t): the elements of a tuple. *)
set(t) == {t[i] : i \in DOMAIN t}

(* Variant: the labels are compared as well. *)
eq_with_labels(g, h) ==
  /\ g.vertex_set = set(tuple(all_vertices(h)))
  /\ g.edge_set = set(tuple(all_edges(h)))
  /\ g.vertex_label_dict = h.vertex_label_dict
  /\ g.edge_label_dict = h.edge_label_dict

(* __eq__: g == h. *)
eq(g, h) ==
  /\ g.vertex_set = set(tuple(all_vertices(h)))
  /\ g.edge_set = set(tuple(all_edges(h)))

(***************************************************************************)
(* The text-format reader.  A string is the sequence of its characters.    *)
(***************************************************************************)
Digit == <<"0", "1", "2", "3", "4", "5", "6", "7", "8", "9">>

DigitValue(c) == (CHOOSE i \in DOMAIN Digit : Digit[i] = c) - 1

(* The characters str.strip() removes and int() skips. *)
Whitespace == {" ", "\t"}

RECURSIVE lstrip(_)
lstrip(s) == IF s # <<>> /\ Head(s) \in Whitespace THEN lstrip(Tail(s)) ELSE s

RECURSIVE rstrip(_)
rstrip(s) ==
  IF s # <<>> /\ s[Len(s)] \in Whitespace
  THEN rstrip(SubSeq(s, 1, Len(s) - 1)) ELSE s

strip(s) == rstrip(lstrip(s))

(* s.split(sep) for a separator of one character: every occurrence of sep  *)
(* ends a token, so that two separators in a row enclose an empty token.   *)
RECURSIVE split(_, _)
split(s, sep) ==
  IF s = <<>> THEN << <<>> >>
  ELSE LET rest == split(Tail(s), sep) IN
       IF Head(s) = sep THEN << <<>> >> \o rest
       ELSE << <<Head(s)>> \o Head(rest) >> \o Tail(rest)

RECURSIVE decimal(_)
decimal(s) ==
  IF s = <<>> THEN 0
  ELSE 10 * decimal(SubSeq(s, 1, Len(s) - 1)) + DigitValue(s[Len(s)])

(* int(s) of a string: blanks around the numeral are skipped, a sign may   *)
(* precede the digits, anything else raises ValueError.                    *)
int(s) ==
  LET t == strip(s)
      signed == t # <<>> /\ Head(t) \in {"-", "+"}
      digits == IF signed THEN Tail(t) ELSE t
  IN IF digits # <<>> /\ \A i \in DOMAIN digits : digits[i] \in set(Digit)
     THEN [exc |-> NoExc,
           val |-> IF signed /\ Head(t) = "-" THEN 0 - decimal(digits)
                   ELSE decimal(digits)]
     ELSE [exc |-> "ValueError", val |-> 0]

(* str(n) of a natural number, as the f-strings of the writer format it. *)
RECURSIVE str(_)
str(n) ==
  IF n < 10 THEN <<Digit[n + 1]>>
  ELSE str(n \div 10) \o <<Digit[(n % 10) + 1]>>

(* Variant: only the edge lines are read. *)
read_line_edges_only(g, line) ==
  LET res == split(strip(line), " ") IN
  IF res[1] = <<"e">>
  THEN IF Len(res) < 3 THEN Raise(g, "Exception")
       ELSE LET j == int(res[2])
                k == int(res[3])
            IN IF j.exc # NoExc THEN Raise(g, j.exc)
               ELSE IF k.exc # NoExc THEN Raise(g, k.exc)
               ELSE add_edge(g, IntArg(j.val), IntArg(k.val), None)
  ELSE Return(g)

(* Variant: a line that is neither a vertex nor an edge line is an error. *)
read_line_strict(g, line) ==
  LET res == split(strip(line), " ") IN
  IF res[1] = <<"n">>
  THEN IF Len(res) < 2 THEN Raise(g, "Exception")
       ELSE LET k == int(res[2]) IN
            IF k.exc # NoExc THEN Raise(g, k.exc)
            ELSE add_vertex(g, IntArg(k.val), None)
  ELSE IF res[1] = <<"e">>
  THEN IF Len(res) < 3 THEN Raise(g, "Exception")
       ELSE LET j == int(res[2])
                k == int(res[3])
            IN IF j.exc # NoExc THEN Raise(g, j.exc)
               ELSE IF k.exc # NoExc THEN Raise(g, k.exc)
               ELSE add_edge(g, IntArg(j.val), IntArg(k.val), None)
  ELSE Raise(g, "Exception")

(* The body of the loop of read: one line of the file. *)
read_line(g, line) ==
  LET res == split(strip(line), " ") IN
  IF res[1] = <<"n">>
  THEN IF Len(res) < 2 THEN Raise(g, "Exception")
       ELSE LET k == int(res[2]) IN
            IF k.exc # NoExc THEN Raise(g, k.exc)
            ELSE add_vertex(g, IntArg(k.val), None)
  ELSE IF res[1] = <<"e">>
  THEN IF Len(res) < 3 THEN Raise(g, "Exception")
       ELSE LET j == int(res[2])
                k == int(res[3])
            IN IF j.exc # NoExc THEN Raise(g, j.exc)
               ELSE IF k.exc # NoExc THEN Raise(g, k.exc)
               ELSE add_edge(g, IntArg(j.val), IntArg(k.val), None)
  ELSE Return(g)

(* The loop of read; the first line that raises ends it. *)
RECURSIVE read_lines(_, _)
read_lines(g, lines) ==
  IF lines = <<>> THEN Return(g)
  ELSE LET r == read_line(g, Head(lines)) IN
       IF r.exc # NoExc THEN r ELSE read_lines(r.g, Tail(lines))

(* read(filename, format): isfile tells whether the file exists, text is   *)
(* what it holds.  r.g is the graph returned when r.exc is NoExc.          *)
read(isfile, text, format) ==
  IF ~isfile THEN Raise(EmptyGraph, "Exception")
  ELSE IF format \notin {"DIMACS"} THEN Raise(EmptyGraph, "Exception")
  ELSE read_lines(EmptyGraph, split(text, "\n"))

(* The lines the writer of the test prints, each ended by a newline. *)
line_p(m, k) == <<"p", " ">> \o str(m) \o <<" ">> \o str(k) \o <<"\n">>

line_n(u) == <<"n", " ">> \o str(u) \o <<"\n">>

line_e(e) == <<"e", " ">> \o str(e[1]) \o <<" ">> \o str(e[2]) \o <<"\n">>

RECURSIVE lines_n(_)
lines_n(V) == IF V = <<>> THEN <<>> ELSE line_n(Head(V)) \o lines_n(Tail(V))

RECURSIVE lines_e(_)
lines_e(E) == IF E = <<>> THEN <<>> ELSE line_e(Head(E)) \o lines_e(Tail(E))

(* The text written for a graph: header, then the vertices V and the edges *)
(* E in the order all_vertices() and all_edges() returned them.            *)
write(header, V, E) == header \o lines_n(V) \o lines_e(E)

(***************************************************************************)
(* The state machine: one action per public mutating method.  A call is    *)
(* atomic and leaves the object as the method left it, whether it returned *)
(* or raised.                                                              *)
(***************************************************************************)
Assign(g) ==
  /\ vertex_set' = g.vertex_set
  /\ edge_set' = g.edge_set
  /\ adj_dict' = g.adj_dict
  /\ vertex_label_dict' = g.vertex_label_dict
  /\ edge_label_dict' = g.edge_label_dict

Call(r) == Assign(r.g) /\ UNCHANGED <<source, pc, frame, other>>

(* The locals of a call in progress: the vertex discard_vertex was called  *)
(* with (0 in a call of discard_edge alone), the snapshot of its           *)
(* neighbours, the part of it the loop has not reached, and the pair       *)
(* discard_edge works on.                                                  *)
NoFrame == [u |-> 0, neighbors |-> {}, todo |-> {}, e |-> <<0, 0>>]

(* A new object, a file of no line, no call in progress and no second      *)
(* caller seen.                                                            *)
Init ==
  /\ vertex_set = {}
  /\ edge_set = {}
  /\ adj_dict = EmptyDict
  /\ vertex_label_dict = EmptyDict
  /\ edge_label_dict = EmptyDict
  /\ source = <<>>
  /\ pc = "idle"
  /\ frame = NoFrame
  /\ other = [interleaved |-> FALSE, observed |-> FALSE]

Clear == Call(clear(G))

AddVertex == \E u \in Args, label \in LabelArgs : Call(add_vertex(G, u, label))

AddEdge == \E u \in Args, v \in Args, label \in LabelArgs : Call(add_edge(G, u, v, label))

(* The neighbours the snapshot of discard_vertex holds. *)
Snapshot(g, u) ==
  IF u.t = "int" /\ u.v \in g.vertex_set /\ u.v \in DOMAIN g.adj_dict
  THEN g.adj_dict[u.v] ELSE {}

DiscardVertex ==
  \E u \in Args :
    \E neighbors \in Orders(Snapshot(G, u)) : Call(discard_vertex(G, u, neighbors))

DiscardEdge == \E u \in Args, v \in Args : Call(discard_edge(G, u, v))

Next == Clear \/ AddVertex \/ AddEdge \/ DiscardVertex \/ DiscardEdge

Spec == Init /\ [][Next]_vars

(***************************************************************************)
(* The reader at work: a file is written line by line, and read returns    *)
(* the object the five fields then describe.                               *)
(***************************************************************************)
MaxLines == 3

(* The lines written: vertex and edge lines, a vertex line with a tab and  *)
(* an edge line with two blanks, a descriptor line, a comment, an empty    *)
(* line, and lines that lack a token or hold a loop.                       *)
SourceLines ==
  { <<"n", " ", "1">>,
    <<"n", " ", "3">>,
    <<"e", " ", "1", " ", "2">>,
    <<"e", " ", "3", " ", "2">>,
    <<"n", "\t", "2">>,
    <<"e", " ", "1", " ", " ", "3">>,
    <<"p", " ", "9", " ", "9">>,
    <<"c", " ", "n", " ", "1">>,
    <<>>,
    <<"n">>,
    <<"e", " ", "2", " ", "2">> }

Formats == {"DIMACS", "GML"}

(* The text of a file of the given lines, each ended by a newline. *)
RECURSIVE text(_)
text(lines) ==
  IF lines = <<>> THEN <<>> ELSE Head(lines) \o <<"\n">> \o text(Tail(lines))

WriteLine ==
  /\ Len(source) < MaxLines
  /\ \E line \in SourceLines : source' = Append(source, line)
  /\ UNCHANGED <<vertex_set, edge_set, adj_dict, vertex_label_dict, edge_label_dict,
                 pc, frame, other>>

(* gg = SimpGraph.read(filename, format); nothing is returned if it raises. *)
Read ==
  \E isfile \in BOOLEAN, format \in Formats :
    LET r == read(isfile, text(source), format) IN
    /\ IF r.exc = NoExc THEN Assign(r.g)
       ELSE UNCHANGED <<vertex_set, edge_set, adj_dict, vertex_label_dict,
                        edge_label_dict>>
    /\ UNCHANGED <<source, pc, frame, other>>

NextRead == WriteLine \/ Read

SpecRead == Init /\ [][NextRead]_vars

(***************************************************************************)
(* Vocabulary of the properties.  A property about a call is stated of the *)
(* call made in a reachable state: r is what the call returns there.       *)
(***************************************************************************)
IsInt(a) == a.t = "int"

(* An argument that add_vertex and add_edge reject. *)
Invalid(a) == ~IsInt(a) \/ a.v <= 0

(* The vertex identifiers among the arguments. *)
ValidArgs == {a \in Args : ~Invalid(a)}

(* A label string that no call of the state machine has stored. *)
OtherLabel == "B"

(* One iteration order of the set S. *)
AnOrder(S) == CHOOSE f \in Orders(S) : TRUE

(* Every value that occurs as an endpoint or as a neighbour in g. *)
Mentioned(g) ==
  UNION {{e[1], e[2]} : e \in g.edge_set}
    \cup UNION {g.adj_dict[w] : w \in DOMAIN g.adj_dict}

NoLabel == [exc |-> NoExc, val |-> None]

(* C1: after every call, failed or not, the adjacency index equals the     *)
(* edge set: for present u and v, v is adjacent to u iff u is adjacent to  *)
(* v iff (min(u,v), max(u,v)) is an edge, and the neighbours of u are      *)
(* exactly the values it shares an edge with.                              *)
AdjacencyEqualsEdgeSet(g) ==
  \A u \in all_vertices(g) :
    /\ adj_vertices(g, u).exc = NoExc
    /\ adj_vertices(g, u).val =
         {w \in Mentioned(g) \cup all_vertices(g) : Canon(u, w) \in all_edges(g)}
    /\ \A v \in all_vertices(g) :
         /\ adj_vertices(g, v).exc = NoExc
         /\ (v \in adj_vertices(g, u).val) <=> (u \in adj_vertices(g, v).val)
         /\ (u \in adj_vertices(g, v).val) <=> (Canon(u, v) \in all_edges(g))

C1_AdjacencyEqualsEdgeSet == AdjacencyEqualsEdgeSet(G)

(* discard_edge removes one of two edges that share a vertex: the pair it  *)
(* removed is no longer adjacent, the other pair still is.                 *)
C1_Witness ==
  \E e \in edge_set, f \in edge_set :
    /\ e # f /\ e[1] = f[1]
    /\ LET r == discard_edge(G, IntArg(e[2]), IntArg(e[1])) IN
       /\ r.exc = NoExc
       /\ e[2] \notin adj_vertices(r.g, e[1]).val
       /\ e[1] \notin adj_vertices(r.g, e[2]).val
       /\ f[2] \in adj_vertices(r.g, f[1]).val
       /\ all_edges(r.g) = {f}

(* C2: after every call both endpoints of every edge are vertices. *)
C2_EndpointsAreVertices ==
  \A e \in all_edges(G) : e[1] \in all_vertices(G) /\ e[2] \in all_vertices(G)

(* discard_vertex removes a vertex with an edge while another edge stays. *)
C2_Witness ==
  \E e \in edge_set, f \in edge_set :
    /\ e[1] \notin {f[1], f[2]}
    /\ LET r == discard_vertex(G, IntArg(e[1]), AnOrder(Snapshot(G, IntArg(e[1])))) IN
       /\ r.exc = NoExc
       /\ e[1] \notin all_vertices(r.g)
       /\ f \in all_edges(r.g) /\ e \notin all_edges(r.g)
       /\ {f[1], f[2]} \subseteq all_vertices(r.g)

(* C3: every stored edge is a pair (a, b) of integers with 0 < a < b, no   *)
(* pair is stored in both orientations, and num_edges counts each          *)
(* unordered pair once.                                                    *)
C3_EdgesAreCanonical ==
  /\ \A e \in all_edges(G) :
       /\ DOMAIN e = 1..2
       /\ e[1] \in Int /\ e[2] \in Int
       /\ 0 < e[1] /\ e[1] < e[2]
       /\ <<e[2], e[1]>> \notin all_edges(G)
  /\ num_edges(G) = Cardinality({{e[1], e[2]} : e \in all_edges(G)})

(* add_edge, given the larger endpoint first, adds a second edge. *)
C3_Witness ==
  \E u \in ValidArgs, v \in ValidArgs :
    /\ u.v > v.v
    /\ <<v.v, u.v>> \notin edge_set
    /\ edge_set # {}
    /\ LET r == add_edge(G, u, v, None) IN
       /\ r.exc = NoExc
       /\ all_edges(r.g) = edge_set \cup {<<v.v, u.v>>}
       /\ num_edges(r.g) = 2

(* discard_vertex(u), then add_vertex(u) without a label. *)
ReaddedVertex(g, u) ==
  add_vertex(discard_vertex(g, IntArg(u), AnOrder(Snapshot(g, IntArg(u)))).g,
             IntArg(u), None).g

(* discard_edge(e), then add_edge(e) without a label. *)
ReaddedEdge(g, e) ==
  add_edge(discard_edge(g, IntArg(e[1]), IntArg(e[2])).g,
           IntArg(e[1]), IntArg(e[2]), None).g

(* discard_vertex(u) for an endpoint u of e, then add_edge(e) without a    *)
(* label.                                                                  *)
ReaddedAfterCascade(g, u, e) ==
  add_edge(discard_vertex(g, IntArg(u), AnOrder(Snapshot(g, IntArg(u)))).g,
           IntArg(e[1]), IntArg(e[2]), None).g

(* C4: labels exist only for present vertices and edges; a labelled vertex *)
(* that is discarded and added again without a label has no label, and so  *)
(* does a labelled edge that is discarded, by discard_edge or by the       *)
(* cascade of discard_vertex, and added again without a label.             *)
C4_LabelsOnlyForPresent ==
  /\ DOMAIN vertex_label_dict \subseteq vertex_set
  /\ DOMAIN edge_label_dict \subseteq edge_set
  /\ \A u \in DOMAIN vertex_label_dict :
       /\ vertex_label(ReaddedVertex(G, u), u) = NoLabel
       /\ \A e \in edge_set :
            u \in {e[1], e[2]} =>
              vertex_label(ReaddedAfterCascade(G, u, e), u) = NoLabel
  /\ \A e \in DOMAIN edge_label_dict :
       /\ edge_label(ReaddedEdge(G, e), e[1], e[2]) = NoLabel
       /\ edge_label(ReaddedAfterCascade(G, e[1], e), e[1], e[2]) = NoLabel
       /\ edge_label(ReaddedAfterCascade(G, e[2], e), e[2], e[1]) = NoLabel

(* A labelled vertex with a labelled edge is discarded: both labels go,    *)
(* and they stay away when the edge is added again.                        *)
C4_Witness ==
  \E e \in DOMAIN edge_label_dict :
    /\ e[1] \in DOMAIN vertex_label_dict
    /\ vertex_label(G, e[1]).val # None
    /\ edge_label(G, e[1], e[2]).val # None
    /\ LET r == discard_vertex(G, IntArg(e[1]), AnOrder(Snapshot(G, IntArg(e[1])))) IN
       /\ r.exc = NoExc
       /\ e \notin DOMAIN r.g.edge_label_dict
       /\ e[1] \notin DOMAIN r.g.vertex_label_dict
    /\ e \in all_edges(ReaddedAfterCascade(G, e[1], e))
    /\ vertex_label(ReaddedAfterCascade(G, e[1], e), e[1]) = NoLabel

(* What discard_vertex(u) of a present u leaves of the graph g. *)
DiscardVertexPost(g, u, r) ==
  /\ r.exc = NoExc
  /\ u \notin all_vertices(r.g)
  /\ \A e \in all_edges(r.g) : e[1] # u /\ e[2] # u
  /\ \A w \in DOMAIN r.g.adj_dict : u \notin r.g.adj_dict[w]
  /\ all_vertices(r.g) = all_vertices(g) \ {u}
  /\ all_edges(r.g) = {e \in all_edges(g) : e[1] # u /\ e[2] # u}
  /\ g.adj_dict[u] \subseteq all_vertices(r.g)
  /\ r.g.adj_dict = [w \in (DOMAIN g.adj_dict) \ {u} |-> g.adj_dict[w] \ {u}]
  /\ r.g.vertex_label_dict = DictPop(g.vertex_label_dict, u)
  /\ r.g.edge_label_dict =
       [e \in (DOMAIN g.edge_label_dict) \cap r.g.edge_set |-> g.edge_label_dict[e]]

(* C5: discard_vertex(u) of a present u returns normally; afterwards u is  *)
(* no vertex, no edge mentions u, u is nobody's neighbour, and the rest is *)
(* as before: the vertices are the old ones minus u, the edges the old     *)
(* ones not incident to u, the former neighbours stay, the other vertices  *)
(* keep their other neighbours and what stays keeps its label.             *)
C5_DiscardVertexCascade ==
  \A u \in vertex_set :
    \A neighbors \in Orders(Snapshot(G, IntArg(u))) :
      DiscardVertexPost(G, u, discard_vertex(G, IntArg(u), neighbors))

(* discard_vertex of a vertex with two neighbours leaves one of them       *)
(* without an edge, and in the graph.                                      *)
C5_Witness ==
  \E u \in vertex_set :
    /\ Cardinality(adj_vertices(G, u).val) >= 2
    /\ LET r == discard_vertex(G, IntArg(u), AnOrder(Snapshot(G, IntArg(u)))) IN
       /\ r.exc = NoExc
       /\ u \notin all_vertices(r.g)
       /\ \E w \in adj_vertices(G, u).val :
            w \in all_vertices(r.g) /\ adj_vertices(r.g, w).val = {}

(* The labels a call may pass: the stored ones, a new one, or none. *)
AnyLabelArg == LabelArgs \cup {OtherLabel}

(* What a call that reaches the labelled vertex u without a vertex label   *)
(* leaves of it.                                                           *)
KeepsVertexLabel(g, u, r) ==
  /\ vertex_label(r.g, u) = vertex_label(g, u)
  /\ u \in all_vertices(r.g)

AddExistingEdgePost(g, e, label, r) ==
  /\ r.exc = NoExc
  /\ r.g.vertex_set = g.vertex_set
  /\ r.g.edge_set = g.edge_set
  /\ r.g.adj_dict = g.adj_dict
  /\ r.g.vertex_label_dict = g.vertex_label_dict
  /\ \A f \in g.edge_set \ {e} : edge_label(r.g, f[1], f[2]) = edge_label(g, f[1], f[2])
  /\ (DOMAIN r.g.edge_label_dict) \ {e} = (DOMAIN g.edge_label_dict) \ {e}
  /\ edge_label(r.g, e[1], e[2]) =
       IF label # None THEN [exc |-> NoExc, val |-> label]
       ELSE edge_label(g, e[1], e[2])
  /\ label = None => r.g = g

C8_ArgumentOrderIrrelevant ==
  \A u \in ValidArgs, v \in ValidArgs :
    u # v =>
      /\ \A label \in AnyLabelArg :
           LET r == add_edge(G, u, v, label) IN
           /\ r = add_edge(G, v, u, label)
           /\ r.exc = NoExc
           /\ {e \in all_edges(r.g) : {e[1], e[2]} = {u.v, v.v}} = {Canon(u.v, v.v)}
           /\ Canon(u.v, v.v)[1] < Canon(u.v, v.v)[2]
      /\ discard_edge(G, u, v) = discard_edge(G, v, u)
      /\ discard_edge(G, u, v).exc = NoExc
      /\ edge_label(G, u.v, v.v) = edge_label(G, v.v, u.v)

(* A labelled edge is read and discarded with the larger endpoint first,   *)
(* and a missing edge is added with the larger endpoint first.             *)
C8_Witness ==
  /\ \E e \in DOMAIN edge_label_dict :
       /\ edge_label(G, e[2], e[1]).val \in Labels
       /\ all_edges(discard_edge(G, IntArg(e[2]), IntArg(e[1])).g) = edge_set \ {e}
  /\ \E u \in ValidArgs, v \in ValidArgs :
       /\ u.v > v.v
       /\ <<v.v, u.v>> \notin edge_set
       /\ all_edges(add_edge(G, u, v, "A").g) = edge_set \cup {<<v.v, u.v>>}

(* A call that raised left the object g as it was. *)
Unchanged(g, r) == r.exc # NoExc => r.g = g

(* C9: validation precedes mutation.  A call that fails leaves vertex set, *)
(* edge set, adjacency and both label maps as they were; add_vertex fails  *)
(* on a non-int or non-positive u; add_edge fails when an endpoint is      *)
(* non-int or non-positive, creating no vertex; add_edge(u, u) fails for   *)
(* every u.                                                                *)
C9_FailureLeavesStateUnchanged ==
  /\ Unchanged(G, clear(G))
  /\ \A u \in Args :
       /\ \A label \in AnyLabelArg :
            /\ Unchanged(G, add_vertex(G, u, label))
            /\ Invalid(u) => add_vertex(G, u, label).exc # NoExc
            /\ add_edge(G, u, u, label).exc # NoExc
            /\ \A v \in Args :
                 /\ Unchanged(G, add_edge(G, u, v, label))
                 /\ (Invalid(u) \/ Invalid(v)) => add_edge(G, u, v, label).exc # NoExc
       /\ \A neighbors \in Orders(Snapshot(G, u)) :
            Unchanged(G, discard_vertex(G, u, neighbors))
       /\ \A v \in Args : Unchanged(G, discard_edge(G, u, v))

(* On a graph with an edge, add_edge fails for a vertex that is not in the *)
(* graph paired with 0, with a non-int and with itself, and the vertex is  *)
(* not created.                                                            *)
C9_Witness ==
  /\ edge_set # {}
  /\ \E u \in ValidArgs :
       /\ u.v \notin vertex_set
       /\ add_edge(G, u, IntArg(0), "A") = Raise(G, "ValueError")
       /\ add_edge(G, StrArg, u, None) = Raise(G, "TypeError")
       /\ add_edge(G, u, u, None) = Raise(G, "Exception")
       /\ u.v \notin all_vertices(add_edge(G, u, IntArg(0), "A").g)

(* What discard_edge of a present edge e leaves of the graph g. *)
DiscardEdgePost(g, e, r) ==
  /\ r.exc = NoExc
  /\ r.g.vertex_set = g.vertex_set
  /\ r.g.vertex_label_dict = g.vertex_label_dict
  /\ r.g.edge_set = g.edge_set \ {e}
  /\ r.g.edge_label_dict = DictPop(g.edge_label_dict, e)

(* C10: discards are tolerant and idempotent.  discard_vertex(u) of an     *)
(* absent u and discard_edge(u, v) of an absent canonical edge return      *)
(* normally and change nothing; a discard made a second time changes       *)
(* nothing; discard_edge of a present edge keeps the vertex set and the    *)
(* vertex labels and removes no other edge and no other edge label.        *)
C10_DiscardsTolerantIdempotent ==
  \A u \in Args :
    /\ \A neighbors \in Orders(Snapshot(G, u)) :
         LET r == discard_vertex(G, u, neighbors) IN
         /\ (~IsInt(u) \/ u.v \notin vertex_set) => r = Return(G)
         /\ r.exc = NoExc =>
              \A again \in Orders(Snapshot(r.g, u)) :
                discard_vertex(r.g, u, again) = Return(r.g)
    /\ \A v \in Args :
         LET r == discard_edge(G, u, v) IN
         /\ (IsInt(u) /\ IsInt(v) /\ Canon(u.v, v.v) \notin edge_set) => r = Return(G)
         /\ (~IsInt(u) /\ ~IsInt(v)) => r = Return(G)
         /\ r.exc = NoExc => discard_edge(r.g, u, v) = Return(r.g)
         /\ (IsInt(u) /\ IsInt(v) /\ Canon(u.v, v.v) \in edge_set)
              => DiscardEdgePost(G, Canon(u.v, v.v), r)

(* Of two labelled edges at labelled vertices one is discarded: the other  *)
(* edge, its label and the vertex labels stay, and discarding the edge    *)
(* again, or a discarded vertex again, changes nothing.                    *)
C10_Witness ==
  \E e \in DOMAIN edge_label_dict, f \in DOMAIN edge_label_dict :
    /\ e # f
    /\ {e[1], e[2]} \subseteq DOMAIN vertex_label_dict
    /\ LET r == discard_edge(G, IntArg(e[1]), IntArg(e[2])) IN
       /\ r.exc = NoExc
       /\ all_edges(r.g) = edge_set \ {e}
       /\ edge_label(r.g, f[1], f[2]).val \in Labels
       /\ vertex_label(r.g, e[1]).val \in Labels
       /\ discard_edge(r.g, IntArg(e[1]), IntArg(e[2])) = Return(r.g)
    /\ LET d == discard_vertex(G, IntArg(e[1]), AnOrder(Snapshot(G, IntArg(e[1])))) IN
       /\ d.exc = NoExc
       /\ e[1] \notin all_vertices(d.g)
       /\ discard_vertex(d.g, IntArg(e[1]), <<>>) = Return(d.g)

(* The values the queries are asked about: 0, the vertices and one more. *)
Queried == 0..(MaxVertex + 1)

(* C16: the queries fail exactly on what is absent.  adj_vertices(u) and   *)
(* vertex_label(u) raise iff u is no vertex, edge_label(u, v) raises iff   *)
(* the canonical pair of u and v is no edge; for a vertex or an edge       *)
(* without a label the label query returns None and does not raise, and    *)
(* for a labelled one it returns the label, which is not None.             *)
C16_QueriesFailOnAbsentOnly ==
  \A u \in Queried :
    /\ adj_vertices(G, u).exc # NoExc <=> u \notin vertex_set
    /\ vertex_label(G, u).exc # NoExc <=> u \notin vertex_set
    /\ (u \in vertex_set /\ u \notin DOMAIN vertex_label_dict)
         => vertex_label(G, u) = NoLabel
    /\ (u \in vertex_set /\ u \in DOMAIN vertex_label_dict)
         => vertex_label(G, u).val # None /\ vertex_label(G, u).val \in Labels
    /\ \A v \in Queried :
         /\ edge_label(G, u, v).exc # NoExc <=> Canon(u, v) \notin edge_set
         /\ (Canon(u, v) \in edge_set /\ Canon(u, v) \notin DOMAIN edge_label_dict)
              => edge_label(G, u, v) = NoLabel
         /\ (Canon(u, v) \in edge_set /\ Canon(u, v) \in DOMAIN edge_label_dict)
              => edge_label(G, u, v).val # None /\ edge_label(G, u, v).val \in Labels

(* A graph with a labelled and an unlabelled vertex, a labelled and an     *)
(* unlabelled edge and a missing vertex: the queries return the label,     *)
(* None, and raise.                                                        *)
C16_Witness ==
  \E u \in vertex_set, v \in vertex_set, w \in Queried, e \in edge_set, f \in edge_set :
    /\ vertex_label(G, u).exc = NoExc /\ vertex_label(G, u).val \in Labels
    /\ vertex_label(G, v) = NoLabel
    /\ w > 0 /\ vertex_label(G, w).exc = "Exception" /\ adj_vertices(G, w).exc = "Exception"
    /\ edge_label(G, e[2], e[1]).exc = NoExc /\ edge_label(G, e[2], e[1]).val \in Labels
    /\ edge_label(G, f[1], f[2]) = NoLabel
    /\ edge_label(G, u, w).exc = "Exception"
    /\ adj_vertices(G, v).exc = NoExc

(* C17: with a vertex in the graph max_vertex returns the largest vertex,  *)
(* which is at least num_vertices and equals it exactly when the vertices  *)
(* are 1..num_vertices; with no vertex max_vertex raises.                  *)
C17_MaxVertex ==
  /\ vertex_set # {} =>
       /\ max_vertex(G).exc = NoExc
       /\ max_vertex(G).val \in vertex_set
       /\ \A x \in vertex_set : x <= max_vertex(G).val
       /\ max_vertex(G).val >= num_vertices(G)
       /\ max_vertex(G).val = num_vertices(G) <=> vertex_set = 1..num_vertices(G)
  /\ vertex_set = {} => max_vertex(G).exc # NoExc
  /\ \A u \in vertex_set :
       (vertex_set = {u}) =>
         \A neighbors \in Orders(Snapshot(G, IntArg(u))) :
           max_vertex(discard_vertex(G, IntArg(u), neighbors).g).exc # NoExc
  /\ max_vertex(clear(G).g).exc # NoExc

(* discard_vertex leaves a gap below the largest vertex, and of the last   *)
(* vertex leaves a graph on which max_vertex raises.                       *)
C17_Witness ==
  \E u \in vertex_set :
    /\ u < max_vertex(G).val
    /\ max_vertex(G).val = num_vertices(G)
    /\ LET r == discard_vertex(G, IntArg(u), AnOrder(Snapshot(G, IntArg(u))))
           m == max_vertex(G).val
           r2 == discard_vertex(EmptyGraph, IntArg(m), <<>>) IN
       /\ max_vertex(r.g).val = m
       /\ max_vertex(r.g).val > num_vertices(r.g)
       /\ max_vertex(add_vertex(clear(G).g, IntArg(m), None).g).val = m
       /\ max_vertex(discard_vertex(add_vertex(clear(G).g, IntArg(m), None).g,
                                    IntArg(m), <<>>).g).exc = "ValueError"

(* The call r raised neither by the assertion nor by a missing key. *)
NoInternalError(r) == r.exc \notin {"AssertionError", "KeyError"}

(* C20: the keys of the adjacency index are exactly the vertices; hence    *)
(* the assertion of add_vertex never fails, adj_vertices never fails for   *)
(* a vertex, and no adjacency lookup of add_edge, discard_edge and         *)
(* discard_vertex meets a missing key.                                     *)
C20_AdjacencyKeysAreVertices ==
  /\ DOMAIN adj_dict = vertex_set
  /\ \A u \in vertex_set : adj_vertices(G, u).exc = NoExc
  /\ \A u \in Args :
       /\ \A label \in LabelArgs :
            /\ NoInternalError(add_vertex(G, u, label))
            /\ \A v \in Args : NoInternalError(add_edge(G, u, v, label))
       /\ \A v \in Args : NoInternalError(discard_edge(G, u, v))
       /\ \A neighbors \in Orders(Snapshot(G, u)) :
            NoInternalError(discard_vertex(G, u, neighbors))

(* A vertex with a neighbour is discarded, which removes its adjacency     *)
(* entry, and add_edge creates it again; an isolated vertex has an entry.  *)
C20_Witness ==
  \E u \in vertex_set, w \in vertex_set :
    /\ adj_vertices(G, w) = [exc |-> NoExc, val |-> {}]
    /\ adj_vertices(G, u).val # {}
    /\ LET r == discard_vertex(G, IntArg(u), AnOrder(Snapshot(G, IntArg(u)))) IN
       /\ r.exc = NoExc
       /\ u \notin DOMAIN r.g.adj_dict
       /\ add_edge(r.g, IntArg(u), IntArg(w), None).exc = NoExc
       /\ DOMAIN add_edge(r.g, IntArg(u), IntArg(w), None).g.adj_dict = vertex_set

(* The graphs on the vertices 1..MaxVertex, each built by add_vertex and   *)
(* add_edge calls without labels, and the graph of the vertices and edges  *)
(* of g with a label on everything.                                        *)
AllPairs == {e \in (1..MaxVertex) \X (1..MaxVertex) : e[1] < e[2]}

RECURSIVE add_vertices(_, _, _)
add_vertices(g, V, label) ==
  IF V = <<>> THEN g
  ELSE add_vertices(add_vertex(g, IntArg(Head(V)), label).g, Tail(V), label)

RECURSIVE add_edges(_, _, _)
add_edges(g, E, label) ==
  IF E = <<>> THEN g
  ELSE add_edges(add_edge(g, IntArg(Head(E)[2]), IntArg(Head(E)[1]), label).g,
                 Tail(E), label)

Build(V, E, label) ==
  add_edges(add_vertices(EmptyGraph, tuple(V), label), tuple(E), label)

Graphs == {Build(V, E, None) : V \in SUBSET (1..MaxVertex), E \in SUBSET AllPairs}

Relabelled(g) == Build(g.vertex_set, g.edge_set, OtherLabel)

SameStructure(g, h) == g.vertex_set = h.vertex_set /\ g.edge_set = h.edge_set

(* C11: g == h is true iff g and h have the same vertices and the same     *)
(* canonical edges, whatever their labels are, and so is h == g: the       *)
(* comparison is symmetric.                                                *)
C11_EqualityIsStructural ==
  \A h \in Graphs \cup {Relabelled(G)} :
    /\ eq(G, h) <=> SameStructure(G, h)
    /\ eq(h, G) <=> SameStructure(G, h)

(* The graph of the same vertices and edges with other labels is equal, in *)
(* both directions, and the graphs one call away are not.                  *)
C11_Witness ==
  /\ vertex_label_dict # EmptyDict
  /\ edge_label_dict # EmptyDict
  /\ \E h \in Graphs \cup {Relabelled(G)} :
       /\ h.vertex_label_dict \notin {vertex_label_dict, EmptyDict}
       /\ h.edge_label_dict \notin {edge_label_dict, EmptyDict}
       /\ eq(G, h) /\ eq(h, G)
  /\ \E h \in Graphs : eq(G, h) /\ eq(h, G)
  /\ \E e \in edge_set, u \in vertex_set :
       /\ ~eq(G, discard_edge(G, IntArg(e[1]), IntArg(e[2])).g)
       /\ ~eq(discard_vertex(G, IntArg(u), AnOrder(Snapshot(G, IntArg(u)))).g, G)

(* The texts the writer produces for g: with or without the descriptor     *)
(* line, the vertices and the edges in one order or in the reverse one.    *)
Reverse(t) == [i \in DOMAIN t |-> t[Len(t) + 1 - i]]

Headers(g) ==
  { <<>>,
    line_p(IF g.vertex_set = {} THEN 0 ELSE max_vertex(g).val, num_edges(g)) }

Written(g) ==
  {write(header, V, E) : header \in Headers(g),
                         V \in {tuple(all_vertices(g))},
                         E \in {tuple(all_edges(g))}}
  \cup {write(header, Reverse(tuple(all_vertices(g))), Reverse(tuple(all_edges(g)))) :
          header \in Headers(g)}

(* C12: writing an "n u" line for every vertex and an "e u v" line for     *)
(* every edge of a graph, after a "p" line or not, and reading the text in *)
(* the DIMACS format returns a graph equal to the one written: the same    *)
(* vertices, isolated ones included, and the same edges.  A number written *)
(* in decimal is read back as itself.                                      *)
C12_RoundTrip ==
  /\ \A t \in Written(G) :
       LET gg == read(TRUE, t, "DIMACS") IN
       /\ gg.exc = NoExc
       /\ eq(gg.g, G) /\ eq(G, gg.g)
       /\ SameStructure(gg.g, G)
       /\ gg.g.adj_dict = adj_dict
  /\ \A u \in vertex_set : int(str(u)) = [exc |-> NoExc, val |-> u]
  /\ \A n \in 0..(10 * num_vertices(G) + num_edges(G)) :
       int(str(n)) = [exc |-> NoExc, val |-> n]

(* A graph with an isolated vertex, an edge and labels is written with the *)
(* descriptor line and read back.                                          *)
C12_Witness ==
  /\ \E u \in vertex_set : adj_dict[u] = {}
  /\ edge_set # {}
  /\ vertex_label_dict # EmptyDict
  /\ LET t == write(line_p(max_vertex(G).val, num_edges(G)),
                    tuple(all_vertices(G)), tuple(all_edges(G)))
         gg == read(TRUE, t, "DIMACS")
     IN /\ Len(split(t, "\n")) = num_vertices(G) + num_edges(G) + 2
        /\ gg.exc = NoExc
        /\ eq(gg.g, G)
        /\ gg.g.vertex_label_dict = EmptyDict

(* What read returns for a file of the given lines. *)
ReadOf(lines) == read(TRUE, text(lines), "DIMACS")

LineOrders(n) ==
  {p \in [1..n -> 1..n] : \A i \in 1..n, j \in 1..n : i # j => p[i] # p[j]}

Reordered(lines, p) == [i \in DOMAIN lines |-> lines[p[i]]]

(* Both reads raise, or both return and the graphs have the same vertices, *)
(* edges and adjacency sets.                                               *)
SameOutcome(a, b) ==
  /\ a.exc = NoExc <=> b.exc = NoExc
  /\ a.exc = NoExc =>
       /\ a.g.vertex_set = b.g.vertex_set
       /\ a.g.edge_set = b.g.edge_set
       /\ a.g.adj_dict = b.g.adj_dict

(* C13: the order of the lines of a source does not affect what read       *)
(* returns: the source read in any order of its lines gives a graph with   *)
(* the same vertex set, edge set and adjacency index, and a source that    *)
(* read rejects is rejected in every order.                                *)
C13_LineOrderIrrelevant ==
  \A p \in LineOrders(Len(source)) :
    SameOutcome(ReadOf(source), ReadOf(Reordered(source, p)))

(* The object read from a file whose edge line precedes the lines of its   *)
(* endpoints and of another vertex; the reverse order gives the same.      *)
C13_Witness ==
  /\ Len(source) >= 3
  /\ SubSeq(source, 1, 3) =
       << <<"e", " ", "3", " ", "2">>, <<"n", " ", "3">>, <<"n", " ", "1">> >>
  /\ ReadOf(source).exc = NoExc
  /\ G = ReadOf(source).g
  /\ ReadOf(Reverse(source)).g = G
  /\ vertex_set = {1, 2, 3}
  /\ adj_dict[3] = {2}

(* The tokens of a line when runs of blanks and tabs separate them. *)
word_len(t) ==
  IF \E i \in DOMAIN t : t[i] \in Whitespace
  THEN (CHOOSE i \in DOMAIN t :
          /\ t[i] \in Whitespace
          /\ \A j \in 1..(i - 1) : t[j] \notin Whitespace) - 1
  ELSE Len(t)

RECURSIVE tokens(_)
tokens(s) ==
  LET t == lstrip(s) IN
  IF t = <<>> THEN <<>>
  ELSE <<SubSeq(t, 1, word_len(t))>> \o tokens(SubSeq(t, word_len(t) + 1, Len(t)))

(* The token is the decimal numeral of a positive integer. *)
IsPositive(tok) ==
  /\ tok # <<>>
  /\ \A i \in DOMAIN tok : tok[i] \in set(Digit)
  /\ decimal(tok) > 0

(* C14: a line whose first whitespace-separated token is n and whose       *)
(* second token is a positive integer k makes read perform add_vertex(k),  *)
(* and a line whose tokens are e and two positive integers j and k makes   *)
(* read perform add_edge(j, k), whether one blank, several blanks or a tab *)
(* separate the tokens.                                                    *)
C14_TokensSplitOnWhitespace ==
  \A i \in DOMAIN source :
    LET t == tokens(source[i]) IN
    /\ (Len(t) >= 2 /\ t[1] = <<"n">> /\ IsPositive(t[2]))
         => read_line(G, source[i]) = add_vertex(G, IntArg(decimal(t[2])), None)
    /\ (Len(t) >= 3 /\ t[1] = <<"e">> /\ IsPositive(t[2]) /\ IsPositive(t[3]))
         => read_line(G, source[i])
              = add_edge(G, IntArg(decimal(t[2])), IntArg(decimal(t[3])), None)

(* The first token of the line is neither n nor e, or the line has none. *)
Ignored(line) == tokens(line) = <<>> \/ tokens(line)[1] \notin {<<"n">>, <<"e">>}

Without(lines, i) == SubSeq(lines, 1, i - 1) \o SubSeq(lines, i + 1, Len(lines))

(* C15: a line whose first token is neither n nor e (a descriptor line, a  *)
(* comment, an empty line) is passed over by read without an error and     *)
(* without an effect: the file read with the line and without it gives the *)
(* same result, whatever numbers the descriptor line holds.                *)
C15_OtherLinesIgnored ==
  \A i \in DOMAIN source :
    Ignored(source[i]) =>
      /\ read_line(G, source[i]) = Return(G)
      /\ ReadOf(source) = ReadOf(Without(source, i))

(* The object read from a file of a descriptor line of wrong numbers, a    *)
(* vertex line and a comment.                                              *)
C15_Witness ==
  /\ Len(source) >= 3
  /\ SubSeq(source, 1, 3) =
       << <<"p", " ", "9", " ", "9">>, <<"n", " ", "3">>, <<"c", " ", "n", " ", "1">> >>
  /\ \A i \in {1, 3} : Ignored(source[i])
  /\ ReadOf(source).exc = NoExc
  /\ G = ReadOf(source).g
  /\ vertex_set = {3}
  /\ edge_set = {}
  /\ max_vertex(G).val # 9 /\ num_edges(G) # 9

(***************************************************************************)
(* discard_vertex and discard_edge statement by statement.  pc names the   *)
(* statement the call in progress executes next; a statement that raises   *)
(* ends the call and leaves the object as it is.                           *)
(***************************************************************************)

(* Variant: the pair stays in the edge set. *)
remove_edge_kept(g, e) == Return(g)

(* self._edge_set.remove((u,v)) *)
remove_edge(g, e) ==
  IF e \notin g.edge_set THEN Raise(g, "KeyError")
  ELSE Return([g EXCEPT !.edge_set = @ \ {e}])

(* Variant: the neighbour stays in the adjacency set. *)
remove_neighbor_kept(g, u, v) == Return(g)

(* self._adj_dict[u].remove(v) *)
remove_neighbor(g, u, v) ==
  IF u \notin DOMAIN g.adj_dict \/ v \notin g.adj_dict[u] THEN Raise(g, "KeyError")
  ELSE Return([g EXCEPT !.adj_dict[u] = @ \ {v}])

(* self._vertex_set.remove(u) *)
remove_from_vertex_set(g, u) ==
  IF u \notin g.vertex_set THEN Raise(g, "KeyError")
  ELSE Return([g EXCEPT !.vertex_set = @ \ {u}])

(* self._vertex_label_dict.pop(u, None) *)
pop_vertex_label(g, u) == [g EXCEPT !.vertex_label_dict = DictPop(@, u)]

(* del self._adj_dict[u] *)
del_adj(g, u) ==
  IF u \notin DOMAIN g.adj_dict THEN Raise(g, "KeyError")
  ELSE Return([g EXCEPT !.adj_dict = DictPop(@, u)])

(* Where discard_edge returns to: its caller, or the loop of discard_vertex. *)
Back(f) == IF f.u = 0 THEN "idle" ELSE "dv_loop"

BackFrame(f) == IF f.u = 0 THEN NoFrame ELSE [f EXCEPT !.e = <<0, 0>>]

(* One statement with result r: go on at "to" with locals f, or raise. *)
Step(r, to, f) ==
  /\ Assign(r.g)
  /\ pc' = IF r.exc = NoExc THEN to ELSE "idle"
  /\ frame' = IF r.exc = NoExc THEN f ELSE NoFrame
  /\ UNCHANGED <<source, other>>

Jump(to, f) ==
  /\ pc' = to
  /\ frame' = f
  /\ UNCHANGED <<vertex_set, edge_set, adj_dict, vertex_label_dict, edge_label_dict,
                 source, other>>

Vertices == 1..MaxVertex

CallAddVertex ==
  /\ pc = "idle"
  /\ \E u \in Vertices : Call(add_vertex(G, IntArg(u), None))

CallAddEdge ==
  /\ pc = "idle"
  /\ \E u \in Vertices, v \in Vertices, label \in LabelArgs :
       Call(add_edge(G, IntArg(u), IntArg(v), label))

(* if u not in self._vertex_set: return *)
CallDiscardVertex ==
  /\ pc = "idle"
  /\ \E u \in Vertices :
       /\ u \in vertex_set
       /\ Jump("dv_snapshot", [NoFrame EXCEPT !.u = u])

(* neighbors = tuple(self._adj_dict[u]) *)
DvSnapshot ==
  /\ pc = "dv_snapshot"
  /\ IF frame.u \in DOMAIN adj_dict
     THEN Jump("dv_loop", [frame EXCEPT !.neighbors = adj_dict[frame.u],
                                        !.todo = adj_dict[frame.u]])
     ELSE Jump("idle", NoFrame)

(* for v in neighbors: self.discard_edge(u,v), the next v being any        *)
(* element the loop has not reached; discard_edge orders the pair.         *)
DvLoop ==
  /\ pc = "dv_loop"
  /\ IF frame.todo = {} THEN Jump("dv_vertex", frame)
     ELSE \E v \in frame.todo :
            Jump("de_check", [frame EXCEPT !.todo = @ \ {v},
                                           !.e = Canon(frame.u, v)])

CallDiscardEdge ==
  /\ pc = "idle"
  /\ \E u \in Vertices, v \in Vertices :
       Jump("de_check", [NoFrame EXCEPT !.e = Canon(u, v)])

(* if (u,v) not in self._edge_set: return *)
DeCheck ==
  /\ pc = "de_check"
  /\ IF frame.e \in edge_set THEN Jump("de_edge", frame)
     ELSE Jump(Back(frame), BackFrame(frame))

DeEdge == pc = "de_edge" /\ Step(remove_edge(G, frame.e), "de_label", frame)

DeLabel == pc = "de_label" /\ Step(Return(pop_edge_label(G, frame.e)), "de_adj_u", frame)

DeAdjU ==
  pc = "de_adj_u" /\ Step(remove_neighbor(G, frame.e[1], frame.e[2]), "de_adj_v", frame)

DeAdjV ==
  pc = "de_adj_v" /\ Step(remove_neighbor(G, frame.e[2], frame.e[1]),
                          Back(frame), BackFrame(frame))

DvVertex == pc = "dv_vertex" /\ Step(remove_from_vertex_set(G, frame.u), "dv_label", frame)

DvLabel == pc = "dv_label" /\ Step(Return(pop_vertex_label(G, frame.u)), "dv_adj", frame)

DvAdj == pc = "dv_adj" /\ Step(del_adj(G, frame.u), "idle", NoFrame)

StepOfCall ==
  \/ DvSnapshot \/ DvLoop \/ DeCheck \/ DeEdge \/ DeLabel \/ DeAdjU \/ DeAdjV
  \/ DvVertex \/ DvLabel \/ DvAdj

NextCascade ==
  CallAddVertex \/ CallAddEdge \/ CallDiscardVertex \/ CallDiscardEdge \/ StepOfCall

(* One caller: a call that has begun runs on to its return, for the code   *)
(* is synchronous and is not suspended.                                    *)
SpecCascade == Init /\ [][NextCascade]_vars /\ WF_vars(StepOfCall)

(* A second caller between two statements of the first.  It calls          *)
(* add_edge(u, w), as a whole and once, after discard_vertex(u) has taken  *)
(* its snapshot and before it removes u; and it reads, comparing the       *)
(* adjacency sets with the edge set.                                       *)
OtherAddEdge ==
  /\ pc \in {"dv_loop", "de_check", "de_edge", "de_label", "de_adj_u", "de_adj_v",
             "dv_vertex"}
  /\ frame.u # 0
  /\ ~other.interleaved
  /\ \E w \in Vertices : Assign(add_edge(G, IntArg(frame.u), IntArg(w), None).g)
  /\ other' = [other EXCEPT !.interleaved = TRUE]
  /\ UNCHANGED <<source, pc, frame>>

OtherRead ==
  /\ pc # "idle"
  /\ ~AdjacencyEqualsEdgeSet(G)
  /\ other' = [other EXCEPT !.observed = TRUE]
  /\ UNCHANGED <<vertex_set, edge_set, adj_dict, vertex_label_dict, edge_label_dict,
                 source, pc, frame>>

NextInterleaved == NextCascade \/ OtherAddEdge \/ OtherRead

SpecInterleaved == Init /\ [][NextInterleaved]_vars

NoEdgeMentions(g, u) == \A e \in g.edge_set : u \notin {e[1], e[2]}

(* What each statement needs in order not to raise and not to do nothing. *)
C18_Safe ==
  /\ pc = "dv_snapshot" => frame.u \in vertex_set /\ frame.u \in DOMAIN adj_dict
  /\ (pc = "de_check" /\ frame.u # 0) =>
       /\ frame.e \in edge_set
       /\ frame.u \in {frame.e[1], frame.e[2]}
  /\ pc = "de_edge" => frame.e \in edge_set
  /\ pc = "de_adj_u" =>
       frame.e[1] \in DOMAIN adj_dict /\ frame.e[2] \in adj_dict[frame.e[1]]
  /\ pc = "de_adj_v" =>
       frame.e[2] \in DOMAIN adj_dict /\ frame.e[1] \in adj_dict[frame.e[2]]
  /\ pc = "dv_vertex" =>
       /\ frame.todo = {}
       /\ frame.u \in vertex_set
       /\ adj_dict[frame.u] = {}
       /\ NoEdgeMentions(G, frame.u)
       /\ \A v \in frame.neighbors : frame.u \notin adj_dict[v]
  /\ pc = "dv_adj" => frame.u \in DOMAIN adj_dict

(* C18: with discard_vertex(u) run statement by statement and no other     *)
(* caller in between, every discard_edge of the cascade finds its edge in  *)
(* the edge set and both of its adjacency removals find their element, no  *)
(* statement raises, the call returns, and when u is removed from the      *)
(* vertex set its adjacency set is empty and no edge mentions u.           *)
C18_CascadeCannotFail == []C18_Safe /\ ((pc # "idle") ~> (pc = "idle"))

(* The cascade over a snapshot of two neighbours is over and u is about to *)
(* be removed from the vertex set.                                         *)
C18_Witness ==
  /\ pc = "dv_vertex"
  /\ Cardinality(frame.neighbors) >= 2
  /\ frame.todo = {}
  /\ frame.neighbors \subseteq vertex_set
  /\ adj_dict[frame.u] = {}
  /\ NoEdgeMentions(G, frame.u)

StoreInvariants(g) ==
  /\ AdjacencyEqualsEdgeSet(g)
  /\ \A e \in g.edge_set : e[1] \in g.vertex_set /\ e[2] \in g.vertex_set
  /\ DOMAIN g.adj_dict = g.vertex_set

(* C19: the store is safe only when a call is atomic.  As long as no       *)
(* second caller has run between two statements of a call, the object      *)
(* between calls has its adjacency sets equal to its edge set and only     *)
(* vertices in its edges, and no edge survives the cascade; but between    *)
(* the removal of the pair from the edge set and the adjacency removals of *)
(* discard_edge the adjacency sets differ from the edge set, which a       *)
(* reader running there observes.                                          *)
C19_SafeOnlyWhenAtomic ==
  /\ (~other.interleaved /\ pc = "idle") => StoreInvariants(G)
  /\ (~other.interleaved /\ pc \in {"dv_vertex", "dv_label", "dv_adj"})
       => NoEdgeMentions(G, frame.u)
  /\ (~other.interleaved /\ pc \in {"de_label", "de_adj_u", "de_adj_v"})
       => ~AdjacencyEqualsEdgeSet(G)

(* After a second caller's add_edge(u, w) during discard_vertex(u), and a  *)
(* reader during a call, the calls are over: (u, w) is an edge and u is    *)
(* adjacent to w although u is no vertex.                                  *)
C19_Witness ==
  /\ pc = "idle"
  /\ other.interleaved
  /\ other.observed
  /\ \E u \in Vertices, w \in vertex_set :
       /\ Canon(u, w) \in edge_set
       /\ u \in adj_dict[w]
       /\ u \notin vertex_set
       /\ u \notin DOMAIN adj_dict

====
